---- MODULE Spec2Model ----
(***************************************************************************)
(* Verification model of the AI platform generator backend:                *)
(*   - the port allocator (services/portManager.js),                       *)
(*   - the multi-file validator/fixer (services/multiFileGenerator.js),    *)
(*   - the generation orchestrator (routes/generate.js).                   *)
(***************************************************************************)
EXTENDS Integers, Sequences, FiniteSets, TLC

VARIABLES
    assignments,   \* portManager: contents of port-assignments.json (array)
    lastCall,      \* portManager: the last exported call and what it returned
    fxFiles,       \* fixer: the file map handed to validateAndFixFiles
    fxConfig,      \* fixer: the project configuration handed to it
    fxOut,         \* fixer: the results {files, fixes} of the successive passes
    project,       \* generate: the project record (status, error, ...)
    session,       \* generate: activeGenerations.get(projectId), or NoSession
    pc,            \* generate: where runBatchGeneration is suspended
    run,           \* generate: the local variables of runBatchGeneration
    disk,          \* generate: the relative paths written under the project path
    phaseEvents,   \* generate: the phase events computed by updatePhase, in order
    sinks,         \* generate: the stream connections (res) and what was written to each
    emitted,       \* generate: the events handed to sendProgressUpdate, in order
    cancelReply,   \* generate: the reply to the last cancel request
    psIn,          \* parser: the file map that is serialized
    psOut,         \* parser: the result of parseMultiFileResponse, or NotParsed
    registry,      \* deploy: runningProcesses.get(projectId), or NoEntry
    children,      \* deploy: the child processes spawned by each start request
    startPc,       \* deploy: where each POST /:projectId/local request is
    stopPc,        \* deploy: where the POST /:projectId/stop request is
    depLog         \* deploy: what the stop request found and what came after it

portVars == <<assignments, lastCall>>
fixVars == <<fxFiles, fxConfig, fxOut>>
genVars == <<project, session, pc, run, disk, phaseEvents, sinks, emitted, cancelReply>>
parseVars == <<psIn, psOut>>
deployVars == <<registry, children, startPc, stopPc, depLog>>
restVars == <<parseVars, deployVars>>
vars == <<assignments, lastCall, fxFiles, fxConfig, fxOut,
          project, session, pc, run, disk, phaseEvents, sinks, emitted,
          cancelReply, psIn, psOut, registry, children, startPc, stopPc, depLog>>

(***************************************************************************)
(* Bounds of the model.                                                    *)
(***************************************************************************)
NumProjects == 3

ProjectIds == 1..NumProjects
ProjectNames == {"My Shop", "Blog"}

(***************************************************************************)
(* Generation orchestrator state (routes/generate.js, models/Project.js)   *)
(***************************************************************************)
NoSession == [status |-> "absent"]

BATCH_PHASES ==
    << [id |-> "setup", weight |-> 5], [id |-> "backend", weight |-> 30],
       [id |-> "frontend", weight |-> 25], [id |-> "database", weight |-> 15],
       [id |-> "infrastructure", weight |-> 10],
       [id |-> "documentation", weight |-> 10],
       [id |-> "finalizing", weight |-> 5] >>

\* the content phases in the order runBatchGeneration generates them
ContentPhases ==
    <<"backend", "frontend", "database", "infrastructure", "documentation">>

\* createProject: a project in draft, no error
NewProject ==
    [status |-> "draft", error |-> "null", testResults |-> "null",
     generatedFiles |-> <<>>]

\* projects.get(id) of an id that is not in the store
NoProject ==
    [status |-> "absent", error |-> "null", testResults |-> "null",
     generatedFiles |-> <<>>]

\* the locals of runBatchGeneration: the content phase being generated and
\* the retryCount of its generatePhase call, allFiles, phaseResults,
\* savedFiles; returned keeps the keys each phase returned (backendFiles,
\* frontendFiles, ...), invalid the phases generatePhase gave up on;
\* staleCleanup: the cleanup timer of an earlier run of the project is
\* still pending
NoRun ==
    [phase |-> 0, retryCount |-> 0, allFiles |-> <<>>, phaseResults |-> <<>>,
     returned |-> <<>>, invalid |-> {}, savedFiles |-> <<>>,
     caught |-> "null", staleCleanup |-> FALSE]

NumSinks == 1

Sinks == 1..NumSinks

\* a connection that has not been opened yet
NoSnapshot == [at |-> -1]

NoSink == [conn |-> "none", joined |-> "none", received |-> <<>>,
           snapshot |-> NoSnapshot]

GenIdle ==
    /\ project = NewProject
    /\ session = NoSession
    /\ pc = "idle"
    /\ run = NoRun
    /\ disk = {}
    /\ phaseEvents = <<>>
    /\ sinks = [k \in Sinks |-> NoSink]
    /\ emitted = <<>>
    /\ cancelReply = "none"

(***************************************************************************)
(* Port allocator                                                          *)
(***************************************************************************)
PLATFORM_PORTS == {3000, 3001}
STARTING_PORT == 4000

NoCall == [op |-> "none"]

\* assignments.find(a => a.projectId === projectId): the first match or none
RECURSIVE FindFrom(_, _, _)
FindFrom(as, projectId, i) ==
    IF i > Len(as) THEN [found |-> FALSE]
    ELSE IF as[i].projectId = projectId THEN [found |-> TRUE, value |-> as[i]]
    ELSE FindFrom(as, projectId, i + 1)

getAssignment(as, projectId) == FindFrom(as, projectId, 1)

getUsedPorts(as) ==
    PLATFORM_PORTS \cup {as[i].frontend : i \in 1..Len(as)}
                   \cup {as[i].backend : i \in 1..Len(as)}

RECURSIVE ScanPort(_, _)
ScanPort(used, port) == IF port \in used THEN ScanPort(used, port + 1) ELSE port

findNextPort(as, startFrom) == ScanPort(getUsedPorts(as), startFrom)

BackendScanStart_SamePort(frontendPort) == frontendPort

\* the backend scan starts one above the frontend port
BackendScanStart(frontendPort) == frontendPort + 1

NewAssignment(as, projectId, projectName) ==
    LET frontendPort == findNextPort(as, STARTING_PORT)
        backendPort == findNextPort(as, BackendScanStart(frontendPort))
    IN [projectId |-> projectId, projectName |-> projectName,
        frontend |-> frontendPort, backend |-> backendPort]

AlreadyAssigned_Never(as, projectId) == FALSE

\* the early return of assignPorts for a project that already has ports
AlreadyAssigned(as, projectId) == getAssignment(as, projectId).found

\* assignPorts: the store after the call and the assignment it returns
assignPorts(as, projectId, projectName) ==
    IF AlreadyAssigned(as, projectId)
    THEN [assignments |-> as, existing |-> TRUE,
          ret |-> getAssignment(as, projectId).value]
    ELSE LET a == NewAssignment(as, projectId, projectName)
         IN [assignments |-> Append(as, a), existing |-> FALSE, ret |-> a]

releasePorts(as, projectId) == SelectSeq(as, LAMBDA a : a.projectId # projectId)

NotParsed == [parsed |-> FALSE]

ParseIdle ==
    /\ psIn = <<>>
    /\ psOut = NotParsed

NumStarts == 2

StartRequests == 1..NumStarts

NoEntry == [present |-> FALSE]

NoChildren == [backend |-> "none", frontend |-> "none"]

DeployIdle ==
    /\ registry = NoEntry
    /\ children = [r \in StartRequests |-> NoChildren]
    /\ startPc = [r \in StartRequests |-> "new"]
    /\ stopPc = "new"
    /\ depLog = [startedBeforeStop |-> FALSE, registeredAfterStop |-> FALSE]

RestIdle == ParseIdle /\ DeployIdle

PortsIdle ==
    /\ assignments = <<>>
    /\ lastCall = NoCall

FixIdle ==
    /\ fxFiles = <<>>
    /\ fxConfig = [name |-> "Blog"]
    /\ fxOut = <<>>

PortsInit == PortsIdle /\ FixIdle /\ GenIdle /\ RestIdle

Assign ==
    /\ \E id \in ProjectIds, name \in ProjectNames :
          LET r == assignPorts(assignments, id, name)
          IN /\ assignments' = r.assignments
             /\ lastCall' = [op |-> "assign", projectId |-> id,
                             existing |-> r.existing, ret |-> r.ret]
    /\ UNCHANGED <<fixVars, genVars, restVars>>

Release ==
    /\ \E id \in ProjectIds :
          /\ assignments' = releasePorts(assignments, id)
          /\ lastCall' = [op |-> "release", projectId |-> id]
    /\ UNCHANGED <<fixVars, genVars, restVars>>

PortsNext == Assign \/ Release

SpecPorts == PortsInit /\ [][PortsNext]_vars

\* loadAssignments on the stored array: the catch around readFileSync and
\* JSON.parse answers [] when the file cannot be read or parsed
loadAssignments(stored, readable) == IF readable THEN stored ELSE <<>>

\* assignPorts on a store file that may fail to be read and to be written:
\* the array in the file after the call and what the call returns
assignPortsOnFile(stored, readable, writable, projectId, projectName) ==
    LET r == assignPorts(loadAssignments(stored, readable), projectId,
                         projectName)
    IN IF r.existing THEN [stored |-> stored, threw |-> FALSE, ret |-> r.ret]
       ELSE IF writable
       THEN [stored |-> r.assignments, threw |-> FALSE, ret |-> r.ret]
       ELSE [stored |-> stored, threw |-> TRUE, ret |-> "EACCES"]

\* releasePorts on such a file (it returns before saving when the loaded
\* array has no entry of the project)
releasePortsOnFile(stored, readable, projectId) ==
    LET loaded == loadAssignments(stored, readable)
    IN IF releasePorts(loaded, projectId) = loaded THEN stored
       ELSE releasePorts(loaded, projectId)

\* assignPorts(projectId, projectName) with the file in either condition
AssignOnFile ==
    /\ \E id \in ProjectIds, name \in ProjectNames,
          readable \in BOOLEAN, writable \in BOOLEAN :
          LET r == assignPortsOnFile(assignments, readable, writable, id, name)
          IN /\ assignments' = r.stored
             /\ lastCall' = [op |-> "assign", projectId |-> id,
                             readable |-> readable, threw |-> r.threw,
                             ret |-> r.ret]
    /\ UNCHANGED <<fixVars, genVars, restVars>>

\* releasePorts(projectId) with the file in either condition
ReleaseOnFile ==
    /\ \E id \in ProjectIds, readable \in BOOLEAN :
          /\ assignments' = releasePortsOnFile(assignments, readable, id)
          /\ lastCall' = [op |-> "release", projectId |-> id]
    /\ UNCHANGED <<fixVars, genVars, restVars>>

StoreNext == AssignOnFile \/ ReleaseOnFile

SpecStore == PortsInit /\ [][StoreNext]_vars

PortsOf(a) == {a.frontend, a.backend}

\* C1: after any sequence of assign and release calls, two stored assignments
\* of different projects have disjoint port sets, the two ports of one
\* assignment differ, and no assigned port is a reserved platform port.
C1_PortsUnique ==
    \A i, j \in 1..Len(assignments) :
        /\ assignments[i].frontend # assignments[i].backend
        /\ PortsOf(assignments[i]) \cap PLATFORM_PORTS = {}
        /\ (assignments[i].projectId # assignments[j].projectId
              => PortsOf(assignments[i]) \cap PortsOf(assignments[j]) = {})

\* a project was released and another assigned since: the store holds
\* assignments made around a gap
C1_Witness ==
    /\ Len(assignments) = NumProjects
    /\ lastCall.op = "assign"
    /\ ~lastCall.existing
    /\ lastCall.ret.frontend = STARTING_PORT
    /\ assignments[1].frontend > STARTING_PORT

\* C2: assign for a project that already has a stored assignment returns
\* exactly the stored pair and leaves the store unchanged.
C2_AssignIdempotent ==
    [][\A id \in ProjectIds :
          (/\ lastCall'.op = "assign"
           /\ lastCall'.projectId = id
           /\ getAssignment(assignments, id).found)
          => (/\ assignments' = assignments
              /\ lastCall'.ret = getAssignment(assignments, id).value)]_vars

\* a repeated assign answered from the store after other projects were
\* assigned and released in between (the lowest port is free again)
C2_Witness ==
    /\ lastCall.op = "assign"
    /\ lastCall.existing
    /\ lastCall.ret.frontend > STARTING_PORT
    /\ STARTING_PORT \notin getUsedPorts(assignments)
    /\ Len(assignments) >= 2

(***************************************************************************)
(* Multi-file validator / fixer                                            *)
(*                                                                         *)
(* A path "backend/src/server.js" is [segs |-> <<"backend","src","server">>,*)
(* ext |-> ".js"]: the "/"-separated segments, the last one without its    *)
(* extension, and the extension of the last segment.  A file map is a      *)
(* function from paths to contents.  A content is one text: either JSON    *)
(* text (form "compact" or "pretty", the latter being the layout of        *)
(* JSON.stringify(_, null, 2)) holding the object pkg, or other text, a    *)
(* sequence of tokens (require calls, import statements, plain text).      *)
(***************************************************************************)
P(segs, ext) == [segs |-> segs, ext |-> ext]

BackendPackageJson == P(<<"backend", "package">>, ".json")
FrontendPackageJson == P(<<"frontend", "package">>, ".json")
BackendEnv == P(<<"backend", "">>, ".env")
BackendEnvExample == P(<<"backend", "">>, ".env.example")
FrontendEnvLocal == P(<<"frontend", "">>, ".env.local")

RECURSIVE JoinSegs(_)
JoinSegs(segs) ==
    IF segs = <<>> THEN ""
    ELSE IF Len(segs) = 1 THEN segs[1]
    ELSE segs[1] \o "/" \o JoinSegs(Tail(segs))

\* the path as the string the code handles
PathStr(p) == JoinSegs(p.segs) \o p.ext

\* filePath.startsWith("backend/")
StartsWithBackendDir(p) == Len(p.segs) >= 2 /\ p.segs[1] = "backend"

\* filePath.endsWith(suffix), for the suffixes ".js" and ".ts"
EndsWith(p, suffix) == p.ext = suffix

NoPkg == [none |-> TRUE]
NoRel == P(<<>>, "")

Text(toks) == [form |-> "text", pkg |-> NoPkg, toks |-> toks]
Json(form, pkg) == [form |-> form, pkg |-> pkg, toks |-> <<>>]

\* tokens of a source text
Req(q, name) == [k |-> "req", q |-> q, pkg |-> name, rel |-> NoRel]
ReqRel(q, rel) == [k |-> "req", q |-> q, pkg |-> "", rel |-> rel]
Imp(name) == [k |-> "imp", q |-> "s", pkg |-> name, rel |-> NoRel]
Txt(t) == [k |-> "txt", q |-> "", pkg |-> t, rel |-> NoRel]

\* a JSON object value / a truthy JSON primitive in the place of an object
Obj(entries) == [isObject |-> TRUE, entries |-> entries]
Prim == [isObject |-> FALSE, entries |-> <<>>]

SetKey(f, k, v) == [x \in (DOMAIN f) \cup {k} |-> IF x = k THEN v ELSE f[x]]
DelKey(f, k) == [x \in (DOMAIN f) \ {k} |-> f[x]]

\* !obj[key] for a string-valued property
Falsy(f, k) == k \notin DOMAIN f \/ f[k] = ""

REQUIRED_BACKEND_PACKAGES ==
    [dependencies |-> << <<"bcryptjs", "^2.4.3">>, <<"cors", "^2.8.5">>,
                         <<"dotenv", "^16.3.1">>, <<"express", "^4.18.2">>,
                         <<"express-rate-limit", "^7.1.5">>,
                         <<"express-validator", "^7.0.1">>,
                         <<"helmet", "^7.1.0">>, <<"jsonwebtoken", "^9.0.2">>,
                         <<"pg", "^8.11.3">>, <<"sequelize", "^6.35.2">>,
                         <<"uuid", "^9.0.1">>, <<"winston", "^3.11.0">> >>,
     devDependencies |-> << <<"jest", "^29.7.0">>, <<"supertest", "^6.3.3">> >>]

REQUIRED_FRONTEND_PACKAGES ==
    [dependencies |-> << <<"next", "14.0.4">>, <<"react", "^18.2.0">>,
                         <<"react-dom", "^18.2.0">>, <<"axios", "^1.6.2">>,
                         <<"tailwindcss", "^3.4.0">>,
                         <<"autoprefixer", "^10.4.16">>,
                         <<"postcss", "^8.4.32">> >>,
     devDependencies |-> << <<"@types/node", "^20.10.5">>,
                            <<"@types/react", "^18.2.45">>,
                            <<"@types/react-dom", "^18.2.18">>,
                            <<"typescript", "^5.3.3">>, <<"eslint", "^8.56.0">>,
                            <<"eslint-config-next", "14.0.4">> >>]

Fix(text) == [warning |-> FALSE, text |-> text]
Warn(text) == [warning |-> TRUE, text |-> text]

\* config.name.toLowerCase().replace(/\s+/g, "-") on the names of the model
SlugName(name) ==
    CASE name = "My Shop" -> "my-shop"
      [] name = "Blog" -> "blog"
      [] OTHER -> name

\* The state of one run of fixBackendPackageJson / fixFrontendPackageJson:
\* the object being patched, the fixes pushed so far, and whether a
\* TypeError was thrown (the module is strict-mode code: assigning a
\* property of a primitive throws).
FxStart(pkg) == [pkg |-> pkg, fixes |-> <<>>, threw |-> FALSE]

\* if (!pkg[key]) { pkg[key] = value; fixes.push(msg) } ; msg "" pushes nothing
EnsureString(st, key, value, msg) ==
    IF st.threw \/ ~Falsy(st.pkg, key) THEN st
    ELSE [st EXCEPT !.pkg = SetKey(st.pkg, key, value),
                    !.fixes = IF msg = "" THEN @ ELSE Append(@, Fix(msg))]

\* if (!pkg[key]) pkg[key] = {}
EnsureObject(st, key) ==
    IF st.threw \/ key \in DOMAIN st.pkg THEN st
    ELSE [st EXCEPT !.pkg = SetKey(st.pkg, key, Obj(<<>>))]

\* if (!pkg[key][name]) { pkg[key][name] = value; fixes.push(msg) }
EnsureEntry(st, key, name, value, msg) ==
    IF st.threw THEN st
    ELSE IF ~Falsy(st.pkg[key].entries, name) THEN st
    ELSE IF ~st.pkg[key].isObject THEN [st EXCEPT !.threw = TRUE]
    ELSE [st EXCEPT !.pkg = SetKey(st.pkg, key,
                               Obj(SetKey(st.pkg[key].entries, name, value))),
                    !.fixes = Append(@, Fix(msg))]

\* for (const [dep, version] of Object.entries(required)) ...
RECURSIVE EnsureAll(_, _, _, _, _)
EnsureAll(st, key, required, i, prefix) ==
    IF i > Len(required) THEN st
    ELSE EnsureAll(EnsureEntry(st, key, required[i][1], required[i][2],
                               prefix \o required[i][1]),
                   key, required, i + 1, prefix)

\* if (pkg.dependencies.bcrypt) { delete pkg.dependencies.bcrypt; ... }
RemoveBcrypt(st) ==
    IF st.threw \/ Falsy(st.pkg["dependencies"].entries, "bcrypt") THEN st
    ELSE [st EXCEPT !.pkg = SetKey(st.pkg, "dependencies",
                               Obj(DelKey(st.pkg["dependencies"].entries, "bcrypt"))),
                    !.fixes = Append(@, Fix("Removed bcrypt (using bcryptjs instead)"))]

\* return { content: JSON.stringify(pkg, null, 2), fixes }, or the catch
\* block's { content, fixes } with the content as it came in
FxResult(content, st) ==
    IF st.threw THEN [content |-> content, fixes |-> st.fixes]
    ELSE [content |-> Json("pretty", st.pkg), fixes |-> st.fixes]

fixBackendPackageJson(content, config) ==
    IF content.form = "text" THEN [content |-> content, fixes |-> <<>>]
    ELSE
    LET s0 == FxStart(content.pkg)
        s1 == EnsureString(s0, "name", SlugName(config.name) \o "-backend",
                           "Added package name")
        s2 == EnsureString(s1, "version", "1.0.0", "")
        s3 == EnsureString(s2, "main", "src/server.js", "Added main entry point")
        s4 == EnsureObject(s3, "scripts")
        s5 == EnsureEntry(s4, "scripts", "start", "node src/server.js",
                          "Added start script")
        s6 == EnsureEntry(s5, "scripts", "dev", "node --watch src/server.js",
                          "Added dev script")
        s7 == EnsureObject(s6, "dependencies")
        s8 == EnsureAll(s7, "dependencies",
                        REQUIRED_BACKEND_PACKAGES.dependencies, 1,
                        "Added missing dependency: ")
        s9 == RemoveBcrypt(s8)
        s10 == EnsureObject(s9, "devDependencies")
        s11 == EnsureAll(s10, "devDependencies",
                         REQUIRED_BACKEND_PACKAGES.devDependencies, 1,
                         "Added missing devDependency: ")
    IN FxResult(content, s11)

fixFrontendPackageJson(content, config) ==
    IF content.form = "text" THEN [content |-> content, fixes |-> <<>>]
    ELSE
    LET s0 == FxStart(content.pkg)
        s1 == EnsureString(s0, "name", SlugName(config.name) \o "-frontend",
                           "Added package name")
        s2 == EnsureObject(s1, "scripts")
        s3 == EnsureEntry(s2, "scripts", "dev", "next dev", "Added dev script")
        s4 == EnsureEntry(s3, "scripts", "build", "next build", "Added build script")
        s5 == EnsureEntry(s4, "scripts", "start", "next start", "Added start script")
        s6 == EnsureObject(s5, "dependencies")
        s7 == EnsureAll(s6, "dependencies",
                        REQUIRED_FRONTEND_PACKAGES.dependencies, 1,
                        "Added missing dependency: ")
        s8 == EnsureObject(s7, "devDependencies")
        s9 == EnsureAll(s8, "devDependencies",
                        REQUIRED_FRONTEND_PACKAGES.devDependencies, 1,
                        "Added missing devDependency: ")
    IN FxResult(content, s9)

(***************************************************************************)
(* File maps: a JavaScript object keeps its keys in insertion order, so a  *)
(* file map is a sequence of entries with pairwise different paths.        *)
(***************************************************************************)
Entry(path, content) == [path |-> path, content |-> content]

Keys(m) == {m[i].path : i \in 1..Len(m)}

IndexOf(m, path) == CHOOSE i \in 1..Len(m) : m[i].path = path

Get(m, path) == m[IndexOf(m, path)].content

\* files[path] is truthy: the key is there and its content is not ""
Truthy(m, path) == path \in Keys(m) /\ Get(m, path) # Text(<<>>)

\* files[path] = content
Put(m, path, content) ==
    IF path \in Keys(m)
    THEN [m EXCEPT ![IndexOf(m, path)].content = content]
    ELSE Append(m, Entry(path, content))

\* delete files[path]
Delete(m, path) == SelectSeq(m, LAMBDA e : e.path # path)

\* Object.assign(target, source)
RECURSIVE ObjectAssign(_, _)
ObjectAssign(target, source) ==
    IF source = <<>> THEN target
    ELSE ObjectAssign(Put(target, Head(source).path, Head(source).content),
                      Tail(source))

IsBcryptRequire(tok) == tok.k = "req" /\ tok.pkg = "bcrypt"

\* content.includes("require('bcrypt')") || content.includes('require("bcrypt")')
IncludesBcryptRequire(content) ==
    \E i \in 1..Len(content.toks) :
        IsBcryptRequire(content.toks[i]) /\ content.toks[i].q \in {"s", "d"}

ReplaceBcrypt_Unchanged(content) == content

\* content.replace(/require\(['"]bcrypt['"]\)/g, "require('bcryptjs')")
ReplaceBcrypt(content) ==
    [content EXCEPT !.toks =
        [i \in 1..Len(content.toks) |->
            IF IsBcryptRequire(content.toks[i]) THEN Req("s", "bcryptjs")
            ELSE content.toks[i]]]

\* the condition of step 2 of validateAndFixFiles
NeedsBcryptFix(path, content) ==
    /\ StartsWithBackendDir(path)
    /\ EndsWith(path, ".js")
    /\ IncludesBcryptRequire(content)

\* step 2: the loop over Object.entries(fixedFiles), from entry i on
RECURSIVE FixBcryptFrom(_, _, _)
FixBcryptFrom(entries, i, acc) ==
    IF i > Len(entries) THEN acc
    ELSE IF NeedsBcryptFix(entries[i].path, entries[i].content)
    THEN FixBcryptFrom(entries, i + 1,
             [files |-> Put(acc.files, entries[i].path,
                            ReplaceBcrypt(entries[i].content)),
              fixes |-> Append(acc.fixes,
                            Fix("Fixed bcrypt -> bcryptjs in "
                                \o PathStr(entries[i].path)))])
    ELSE FixBcryptFrom(entries, i + 1, acc)

\* path.dirname(fromFile), as segments ("." for a bare file name)
DirSegs(p) ==
    IF Len(p.segs) <= 1 THEN <<".">> ELSE SubSeq(p.segs, 1, Len(p.segs) - 1)

\* path.posix.normalize on the joined segments
RECURSIVE NormSegs(_, _)
NormSegs(in, out) ==
    IF in = <<>> THEN out
    ELSE IF Head(in) = "." THEN NormSegs(Tail(in), out)
    ELSE IF Head(in) = ".."
    THEN IF out # <<>> /\ out[Len(out)] # ".."
         THEN NormSegs(Tail(in), SubSeq(out, 1, Len(out) - 1))
         ELSE NormSegs(Tail(in), Append(out, ".."))
    ELSE NormSegs(Tail(in), Append(out, Head(in)))

resolveImportPath(fromFile, importPath) ==
    P(NormSegs(DirSegs(fromFile) \o importPath.segs, <<>>), importPath.ext)

\* resolvedPath + ".js"
PlusJs(p) == P(p.segs, p.ext \o ".js")

\* resolvedPath + "/index.js"
PlusIndexJs(p) ==
    IF p.segs = <<>> THEN P(<<"", "index">>, ".js")
    ELSE P(Append([p.segs EXCEPT ![Len(p.segs)] = @ \o p.ext], "index"), ".js")

PossiblePaths(resolvedPath) ==
    {resolvedPath, PlusJs(resolvedPath), PlusIndexJs(resolvedPath)}

\* the requires matched by /require\(['"](\.\.?\/[^'"]+)['"]\)/g
IsRelativeRequire(tok) == tok.k = "req" /\ tok.rel # NoRel

ImportWarning(filePath, importPath) ==
    Warn("Warning: " \o PathStr(filePath) \o " imports '" \o PathStr(importPath)
         \o "' but file not found at "
         \o PathStr(resolveImportPath(filePath, importPath)))

\* the while loop over the require matches of one file, from token j on
RECURSIVE ImportWarningsOf(_, _, _, _)
ImportWarningsOf(existingFiles, e, j, acc) ==
    IF j > Len(e.content.toks) THEN acc
    ELSE LET tok == e.content.toks[j]
             missing ==
                 /\ IsRelativeRequire(tok)
                 /\ PossiblePaths(resolveImportPath(e.path, tok.rel))
                       \cap existingFiles = {}
         IN ImportWarningsOf(existingFiles, e, j + 1,
                IF missing THEN Append(acc, ImportWarning(e.path, tok.rel))
                ELSE acc)

RECURSIVE ImportsFrom(_, _, _)
ImportsFrom(files, i, acc) ==
    IF i > Len(files) THEN acc
    ELSE IF ~EndsWith(files[i].path, ".js") /\ ~EndsWith(files[i].path, ".ts")
    THEN ImportsFrom(files, i + 1, acc)
    ELSE ImportsFrom(files, i + 1,
                     ImportWarningsOf(Keys(files), files[i], 1, acc))

validateAndFixImports(files) == ImportsFrom(files, 1, <<>>)

\* step 4: the keys deleted from the fixed files
EnvFilesToDelete == {BackendEnv, BackendEnvExample, FrontendEnvLocal}

validateAndFixFiles(files, config) ==
    LET b == IF Truthy(files, BackendPackageJson)
             THEN fixBackendPackageJson(Get(files, BackendPackageJson), config)
             ELSE [content |-> Text(<<>>), fixes |-> <<>>]
        files1 == IF Truthy(files, BackendPackageJson)
                  THEN Put(files, BackendPackageJson, b.content) ELSE files
        f == IF Truthy(files1, FrontendPackageJson)
             THEN fixFrontendPackageJson(Get(files1, FrontendPackageJson), config)
             ELSE [content |-> Text(<<>>), fixes |-> <<>>]
        files2 == IF Truthy(files1, FrontendPackageJson)
                  THEN Put(files1, FrontendPackageJson, f.content) ELSE files1
        r2 == FixBcryptFrom(files2, 1,
                            [files |-> files2, fixes |-> b.fixes \o f.fixes])
        importFixes == validateAndFixImports(r2.files)
    IN [files |-> SelectSeq(r2.files, LAMBDA e : e.path \notin EnvFilesToDelete),
        fixes |-> r2.fixes \o importFixes]

(***************************************************************************)
(* The fixer applied to the file maps a phase can hand to it.              *)
(***************************************************************************)
MaxPasses == 2

AuthService == P(<<"backend", "src", "services", "authService">>, ".js")
AuthServiceTs == P(<<"backend", "src", "services", "authService">>, ".ts")
UserModel == P(<<"backend", "src", "models", "User">>, ".js")
FrontendEnv == P(<<"frontend", "">>, ".env")

RelUserModel == P(<<"..", "models", "User">>, "")
RelBackendEnv == P(<<"..", "..", "">>, ".env")

E0 == <<>>
Deps(S) == Obj([d \in S |-> "^1.0.0"])

\* the manifests a phase may produce for backend/package.json
BackendManifests ==
    { Json("compact", E0),
      Json("compact", [name |-> "shop-api", dependencies |-> Deps({"bcrypt", "express"})]),
      Json("compact", [name |-> "", dependencies |-> Deps({"bcryptjs"}),
                       devDependencies |-> Deps({"bcrypt"})]),
      Json("compact", [dependencies |-> Obj([d \in {"bcrypt"} |-> ""])]),
      Json("compact", [scripts |-> Prim, dependencies |-> Deps({"bcrypt"})]),
      Json("pretty", [name |-> "shop-api", dependencies |-> Prim]),
      Text(<<Txt("{ not json")>>),
      Text(<<>>) }

\* the backend sources a phase may produce
BackendSources ==
    { Entry(AuthService, Text(<<Req("s", "bcrypt")>>)),
      Entry(AuthService, Text(<<Req("d", "bcrypt"), ReqRel("s", RelUserModel),
                                Req("s", "bcrypt")>>)),
      Entry(AuthService, Text(<<Imp("bcrypt")>>)),
      Entry(AuthService, Text(<<Req("s", "bcryptjs"), ReqRel("d", RelBackendEnv)>>)),
      Entry(AuthServiceTs, Text(<<Req("s", "bcrypt"), ReqRel("s", RelUserModel)>>)) }

EnvEntries ==
    { Entry(BackendEnv, Text(<<Txt("PORT=5000")>>)),
      Entry(FrontendEnvLocal, Text(<<Txt("NEXT_PUBLIC_API_URL=http://localhost:5000")>>)),
      Entry(FrontendEnv, Text(<<Txt("PORT=3000")>>)),
      Entry(BackendEnvExample, Text(<<Txt("PORT=")>>)) }

Opt(S) == {<<>>} \cup {<<e>> : e \in S}

FixInputs ==
    { a \o b \o c \o d \o e :
        a \in Opt({Entry(BackendPackageJson, c0) : c0 \in BackendManifests}),
        b \in Opt(BackendSources),
        c \in Opt({Entry(UserModel, Text(<<Txt("module.exports = User")>>))}),
        d \in Opt(EnvEntries),
        e \in Opt({Entry(FrontendPackageJson, Json("compact", E0))}) }

FixInit ==
    /\ PortsIdle
    /\ GenIdle
    /\ RestIdle
    /\ fxFiles \in FixInputs
    /\ fxConfig \in {[name |-> n] : n \in ProjectNames}
    /\ fxOut = <<>>

\* fix(m)
FixFirst ==
    /\ fxOut = <<>>
    /\ fxOut' = <<validateAndFixFiles(fxFiles, fxConfig)>>
    /\ UNCHANGED <<fxFiles, fxConfig, portVars, genVars, restVars>>

\* fix(fix(m).files), and so on
FixAgain ==
    /\ fxOut # <<>>
    /\ Len(fxOut) < MaxPasses
    /\ fxOut' = Append(fxOut,
                       validateAndFixFiles(fxOut[Len(fxOut)].files, fxConfig))
    /\ UNCHANGED <<fxFiles, fxConfig, portVars, genVars, restVars>>

FixNext == FixFirst \/ FixAgain

SpecFix == FixInit /\ [][FixNext]_vars

IsWarning(fix) == fix.warning

\* a parsed manifest whose scripts, dependencies and devDependencies, where
\* present, are objects
WellFormedManifest(content) ==
    \/ content.form = "text"
    \/ \A k \in {"scripts", "dependencies", "devDependencies"} \cap DOMAIN content.pkg :
          content.pkg[k].isObject

WellFormedManifests(files) ==
    \A p \in {BackendPackageJson, FrontendPackageJson} \cap Keys(files) :
        WellFormedManifest(Get(files, p))

\* some .js/.ts file requires a relative path that no file of the map has
HasDanglingRequire(files) ==
    \E i \in 1..Len(files) :
        /\ files[i].path.ext \in {".js", ".ts"}
        /\ \E j \in 1..Len(files[i].content.toks) :
              LET tok == files[i].content.toks[j]
              IN /\ IsRelativeRequire(tok)
                 /\ \A q \in PossiblePaths(resolveImportPath(files[i].path, tok.rel)) :
                       q \notin Keys(files)

IsEnvPath(p) == p.ext \in {".env", ".env.local"}

\* C9: after fix() the returned file map contains no path ending in .env or
\* .env.local, in whatever directory the path lies.
C9_NoEnvFiles ==
    \A i \in 1..Len(fxOut) : \A p \in Keys(fxOut[i].files) : ~IsEnvPath(p)

IsBackendSource(p) == StartsWithBackendDir(p) /\ p.ext \in {".js", ".ts"}

ImportsBcrypt(content) ==
    \E j \in 1..Len(content.toks) :
        content.toks[j].k \in {"req", "imp"} /\ content.toks[j].pkg = "bcrypt"

ManifestLists(content, section, dep) ==
    /\ content.form # "text"
    /\ section \in DOMAIN content.pkg
    /\ dep \in DOMAIN content.pkg[section].entries

\* C10: when a backend source file imports bcrypt, after fix() no file
\* references bcrypt as a package (in a source import or in the backend
\* manifest's dependency lists) and bcryptjs is in the manifest's dependencies.
C10_BcryptRepaired ==
    (/\ fxOut # <<>>
     /\ \E i \in 1..Len(fxFiles) :
           IsBackendSource(fxFiles[i].path) /\ ImportsBcrypt(fxFiles[i].content))
    => LET out == fxOut[1].files
       IN /\ \A i \in 1..Len(out) : ~ImportsBcrypt(out[i].content)
          /\ BackendPackageJson \in Keys(out)
          /\ ManifestLists(Get(out, BackendPackageJson), "dependencies", "bcryptjs")
          /\ ~ManifestLists(Get(out, BackendPackageJson), "dependencies", "bcrypt")
          /\ ~ManifestLists(Get(out, BackendPackageJson), "devDependencies", "bcrypt")

(***************************************************************************)
(* Generation orchestrator: progress tracking                              *)
(*                                                                         *)
(* Progress is kept in half percents (the code's 12.5 is 25 here), so that *)
(* the half weight of an in-progress phase stays an integer.               *)
(***************************************************************************)
GenProjectId == 1
GenConfig == [name |-> "My Shop"]

ProgressCap == 200

NewSession ==
    [status |-> "generating",
     clients |-> <<>>,
     phases |-> [i \in 1..Len(BATCH_PHASES) |->
                    [id |-> BATCH_PHASES[i].id, weight |-> BATCH_PHASES[i].weight,
                     status |-> "pending", filesGenerated |-> 0]],
     progress |-> 0,
     logs |-> <<>>,
     stats |-> [backendFiles |-> 0, frontendFiles |-> 0, databaseFiles |-> 0,
                infraFiles |-> 0, docFiles |-> 0, totalFiles |-> 0,
                totalLines |-> 0]]

PhaseContribution_Swapped(p) ==
    IF p.status = "completed" THEN p.weight
    ELSE IF p.status = "in_progress" THEN 2 * p.weight
    ELSE 0

\* completed phases count their weight, in-progress phases half of it
PhaseContribution(p) ==
    IF p.status = "completed" THEN 2 * p.weight
    ELSE IF p.status = "in_progress" THEN p.weight
    ELSE 0

RECURSIVE SumContributions(_, _)
SumContributions(phases, i) ==
    IF i > Len(phases) THEN 0
    ELSE PhaseContribution(phases[i]) + SumContributions(phases, i + 1)

Min(a, b) == IF a <= b THEN a ELSE b

\* the one element of a singleton set
TheOne(S) == CHOOSE x \in S : TRUE

\* Math.min(100, completedWeight + inProgressWeight)
RecalculateProgress(phases) == Min(ProgressCap, SumContributions(phases, 1))

PhaseIndex(phaseId) ==
    CHOOSE i \in 1..Len(BATCH_PHASES) : BATCH_PHASES[i].id = phaseId

OpenSinks(st) == {k \in Sinks : st.sinks[k].conn = "open"}

ClientsOf(sess) == IF sess = NoSession THEN {} ELSE {sess.clients[i] : i \in 1..Len(sess.clients)}

\* client.write of one event
Write(sink, type, n) == [sink EXCEPT !.received = Append(@, [type |-> type, n |-> n])]

\* sendProgressUpdate: write the event to the clients of the project's session
\* (here and in the helpers below the state is bound once, as s, so that it
\* is computed once however deep the calls nest)
sendProgressUpdate(st, type) ==
    TheOne({[s EXCEPT
                !.emitted = Append(@, [type |-> type, open |-> OpenSinks(s),
                                       to |-> ClientsOf(s.session)]),
                !.sinks = [k \in Sinks |->
                              IF k \in ClientsOf(s.session)
                              THEN Write(@[k], type, Len(s.emitted) + 1)
                              ELSE @[k]]] : s \in {st}})

\* The state the orchestrator's helpers work on: st.session is the entry of
\* activeGenerations, st.events the phase events computed so far.
updatePhase(st, phaseId, status, filesCount) ==
    TheOne({IF s.session = NoSession THEN s
            ELSE TheOne({sendProgressUpdate(
                            [s EXCEPT
                               !.session.phases = phases,
                               !.session.progress = RecalculateProgress(phases),
                               !.events =
                                   Append(@, [phaseId |-> phaseId,
                                              status |-> status,
                                              filesGenerated |-> filesCount,
                                              progress |->
                                                  RecalculateProgress(phases)])],
                            "phase") :
                         phases \in {[s.session.phases EXCEPT
                                        ![PhaseIndex(phaseId)].status = status,
                                        ![PhaseIndex(phaseId)].filesGenerated =
                                            IF filesCount > 0 THEN filesCount
                                            ELSE @]}}) :
            s \in {st}})

addLog(st, message, type) ==
    TheOne({IF s.session = NoSession THEN s
            ELSE sendProgressUpdate(
                     [s EXCEPT !.session.logs = Append(@, [message |-> message,
                                                           type |-> type])],
                     "log") : s \in {st}})

\* Object.assign(generation.stats, updates)
updateStats(st, updates) ==
    TheOne({IF s.session = NoSession THEN s
            ELSE sendProgressUpdate(
                     [s EXCEPT !.session.stats =
                         [k \in DOMAIN @ |-> IF k \in DOMAIN u THEN u[k]
                                             ELSE @[k]]],
                     "stats") : s \in {st}, u \in {updates}})

\* updateProject(projectId, updates): null for an id that is not in the store
updateProject(st, updates) ==
    TheOne({IF s.project = NoProject THEN s
            ELSE [s EXCEPT !.project =
                     [k \in DOMAIN @ |-> IF k \in DOMAIN u THEN u[k]
                                         ELSE @[k]]] : s \in {st}, u \in {updates}})

(***************************************************************************)
(* Phase generator                                                         *)
(***************************************************************************)
ServerJs == P(<<"backend", "src", "server">>, ".js")
ConfigIndexJs == P(<<"backend", "src", "config", "index">>, ".js")
RoutesIndexJs == P(<<"backend", "src", "routes", "index">>, ".js")
MiddlewareAuthJs == P(<<"backend", "src", "middleware", "auth">>, ".js")
ErrorHandlerJs == P(<<"backend", "src", "middleware", "errorHandler">>, ".js")
LayoutTsx == P(<<"frontend", "app", "layout">>, ".tsx")
PageTsx == P(<<"frontend", "app", "page">>, ".tsx")
TailwindConfigJs == P(<<"frontend", "tailwind.config">>, ".js")
SchemaSql == P(<<"database", "schema">>, ".sql")
Dockerfile == P(<<"infrastructure", "Dockerfile">>, "")
ReadmeMd == P(<<"docs", "README">>, ".md")
ProjectJson == P(<<"project">>, ".json")

CRITICAL_FILES(phase) ==
    CASE phase = "backend" ->
             <<ServerJs, BackendPackageJson, ConfigIndexJs, RoutesIndexJs,
               MiddlewareAuthJs, ErrorHandlerJs>>
      [] phase = "frontend" ->
             <<LayoutTsx, FrontendPackageJson, PageTsx, TailwindConfigJs>>
      [] phase = "database" -> <<SchemaSql>>
      [] OTHER -> <<>>

validatePhaseFiles(phase, files) ==
    LET missing == SelectSeq(CRITICAL_FILES(phase), LAMBDA f : ~Truthy(files, f))
    IN [valid |-> missing = <<>>, missing |-> missing]

MaxRetries == 2

ShouldRetry_OnceMore(phase, files, retryCount) ==
    ~validatePhaseFiles(phase, files).valid /\ retryCount < MaxRetries + 1

\* generatePhase calls the provider again: !validation.valid && retryCount < 2
ShouldRetry(phase, files, retryCount) ==
    ~validatePhaseFiles(phase, files).valid /\ retryCount < MaxRetries

\* c.split("\n").length of one content
RECURSIVE PrettyLines(_, _)
PrettyLines(pkg, keys) ==
    IF keys = {} THEN 0
    ELSE LET k == CHOOSE x \in keys : TRUE
             n == IF k \in {"name", "version", "main"} THEN 1
                  ELSE IF DOMAIN pkg[k].entries = {} THEN 1
                  ELSE 2 + Cardinality(DOMAIN pkg[k].entries)
         IN n + PrettyLines(pkg, keys \ {k})

Lines(content) ==
    IF content.form = "text"
    THEN (IF content.toks = <<>> THEN 1 ELSE Len(content.toks))
    ELSE IF content.form = "compact" \/ DOMAIN content.pkg = {} THEN 1
    ELSE 2 + PrettyLines(content.pkg, DOMAIN content.pkg)

RECURSIVE TotalLines(_, _)
TotalLines(files, i) ==
    IF i > Len(files) THEN 0
    ELSE Lines(files[i].content) + TotalLines(files, i + 1)

\* the stats generatePhase computes on the parsed files
PhaseStats(phase, files) ==
    [phase |-> phase, filesGenerated |-> Len(files),
     lines |-> TotalLines(files, 1), error |-> "null"]

\* generateSinglePhase: the result of generatePhase with the fixes applied
generateSinglePhase(phase, files, config) ==
    LET fixed == validateAndFixFiles(files, config)
    IN [files |-> fixed.files, stats |-> PhaseStats(phase, files),
        fixes |-> fixed.fixes]

(***************************************************************************)
(* Generation orchestrator: runBatchGeneration                             *)
(***************************************************************************)
Cur ==
    [project |-> project, session |-> session, pc |-> pc, run |-> run,
     disk |-> disk, events |-> phaseEvents, assignments |-> assignments,
     lastCall |-> lastCall, sinks |-> sinks, emitted |-> emitted,
     cancelReply |-> cancelReply]

Becomes(st) ==
    \E s \in {st} :
        /\ project' = s.project
        /\ session' = s.session
        /\ pc' = s.pc
        /\ run' = s.run
        /\ disk' = s.disk
        /\ phaseEvents' = s.events
        /\ assignments' = s.assignments
        /\ lastCall' = s.lastCall
        /\ sinks' = s.sinks
        /\ emitted' = s.emitted
        /\ cancelReply' = s.cancelReply
        /\ UNCHANGED <<fixVars, restVars>>

PathsOf(files) == [i \in 1..Len(files) |-> files[i].path]

SeqRange(q) == {q[i] : i \in 1..Len(q)}

\* f.includes("server.js") / f.endsWith("server.js") on a path
IsServerJs(p) == p.segs # <<>> /\ p.segs[Len(p.segs)] = "server" /\ p.ext = ".js"

\* f.includes("layout.tsx")
IsLayoutTsx(p) == p.segs # <<>> /\ p.segs[Len(p.segs)] = "layout" /\ p.ext = ".tsx"

StatsKey(phase) ==
    CASE phase = "backend" -> "backendFiles"
      [] phase = "frontend" -> "frontendFiles"
      [] phase = "database" -> "databaseFiles"
      [] phase = "infrastructure" -> "infraFiles"
      [] phase = "documentation" -> "docFiles"

RECURSIVE SumLines(_, _)
SumLines(phaseResults, i) ==
    IF i > Len(phaseResults) THEN 0
    ELSE phaseResults[i].lines + SumLines(phaseResults, i + 1)

Catch_NoStatus(st, message) ==
    LET s1 == addLog(st, "Error: " \o message, "error")
        s2 == sendProgressUpdate(s1, "error")
    IN [s2 EXCEPT !.session = NoSession, !.pc = "done", !.run.caught = message]

\* the catch block of runBatchGeneration
Catch(st, message) ==
    LET s1 == addLog(st, "Error: " \o message, "error")
        s2 == sendProgressUpdate(
                  updateProject(s1, [status |-> "failed", error |-> message]),
                  "error")
    IN [s2 EXCEPT !.session = NoSession, !.pc = "done", !.run.caught = message]

\* a content phase starts: mark it in progress and call the provider
BeginPhase(st, k) ==
    LET phase == ContentPhases[k]
        s1 == updatePhase(st, phase, "in_progress", 0)
        s2 == addLog(s1, "Generating " \o phase \o " (Phase " \o ToString(k)
                         \o "/5)...", "thinking")
        s3 == IF phase \in {"backend", "frontend"}
              THEN addLog(s2, "This may take 30-60 seconds...", "info") ELSE s2
    IN [s3 EXCEPT !.pc = "provider", !.run.phase = k, !.run.retryCount = 0]

BeginFinalizing_NoCheck(st) ==
    LET s1 == updatePhase(st, "finalizing", "in_progress", 0)
        s2 == addLog(s1, "Finalizing project...", "thinking")
    IN [addLog(s2, "Saving " \o ToString(Len(s2.run.allFiles))
                   \o " generated files...", "info")
        EXCEPT !.pc = "saving"]

\* Phase 6 up to the first await: the zero-file check
BeginFinalizing(st) ==
    LET s1 == updatePhase(st, "finalizing", "in_progress", 0)
        s2 == addLog(s1, "Finalizing project...", "thinking")
    IN IF s2.run.allFiles = <<>>
       THEN Catch(s2, "No files were generated across all phases")
       ELSE [addLog(s2, "Saving " \o ToString(Len(s2.run.allFiles))
                        \o " generated files...", "info")
             EXCEPT !.pc = "saving"]

AfterPhase(st) ==
    IF st.run.phase < Len(ContentPhases)
    THEN BeginPhase(st, st.run.phase + 1)
    ELSE BeginFinalizing(st)

\* the status the try branch gives a phase whose generation returned
PhaseStatusOfResult(valid) == "completed"

\* the try branch of a content phase after generateSinglePhase returned
\* result: merge the files, push the stats, log, update stats and phase
RecordPhaseResult(st, phase, valid, result) ==
    LET keys == PathsOf(result.files)
        n == Len(keys)
        allFiles == ObjectAssign(st.run.allFiles, result.files)
        phaseResults == Append(st.run.phaseResults, result.stats)
        s1 == [st EXCEPT !.run.allFiles = allFiles,
                         !.run.phaseResults = phaseResults,
                         !.run.returned = Append(@, [phase |-> phase,
                                                     keys |-> SeqRange(keys)]),
                         !.run.invalid = IF valid THEN @ ELSE @ \cup {phase}]
        s2 == addLog(s1, phase \o ": " \o ToString(n) \o " files generated",
                     "success")
        s3 == IF phase = "backend" /\ ~\E f \in SeqRange(keys) : IsServerJs(f)
              THEN addLog(s2, "Warning: server.js not found in backend", "warning")
              ELSE IF phase = "frontend" /\ ~\E f \in SeqRange(keys) : IsLayoutTsx(f)
              THEN addLog(s2, "Warning: layout.tsx not found in frontend", "warning")
              ELSE s2
        base == (StatsKey(phase) :> n) @@ ("totalFiles" :> Len(allFiles))
        updates == IF phase = "backend"
                   THEN base @@ ("totalLines" :> result.stats.lines)
                   ELSE IF phase = "frontend"
                   THEN base @@ ("totalLines" :> SumLines(phaseResults, 1))
                   ELSE base
        s4 == updateStats(s3, updates)
    IN updatePhase(s4, phase, PhaseStatusOfResult(valid), n)

\* the try branch of a content phase: generateSinglePhase returned
PhaseSucceeded(st, files) ==
    RecordPhaseResult(st, ContentPhases[st.run.phase],
                      validatePhaseFiles(ContentPhases[st.run.phase], files).valid,
                      generateSinglePhase(ContentPhases[st.run.phase], files,
                                          GenConfig))

\* the catch branch of a content phase
PhaseFailed(st, message) ==
    LET phase == ContentPhases[st.run.phase]
        s1 == addLog(st, phase \o " generation failed: " \o message, "error")
        s2 == updatePhase(s1, phase, "failed", 0)
    IN [s2 EXCEPT !.run.phaseResults =
            Append(@, [phase |-> phase, filesGenerated |-> 0, lines |-> 0,
                       error |-> message])]

\* the outputs the provider may return for a phase, already parsed
BackendFull ==
    << Entry(ServerJs, Text(<<Req("s", "express"),
                              ReqRel("s", P(<<".", "config">>, "")),
                              ReqRel("s", P(<<".", "routes">>, ""))>>)),
       Entry(BackendPackageJson,
             Json("compact", [name |-> "shop-api",
                              dependencies |-> Deps({"express", "bcrypt"})])),
       Entry(ConfigIndexJs, Text(<<Req("s", "dotenv")>>)),
       Entry(RoutesIndexJs, Text(<<Req("s", "express")>>)),
       Entry(MiddlewareAuthJs, Text(<<Req("s", "bcrypt"), Req("s", "jsonwebtoken")>>)),
       Entry(ErrorHandlerJs, Text(<<Txt("module.exports = errorHandler")>>)),
       Entry(BackendEnv, Text(<<Txt("PORT=5000")>>)) >>

BackendPartial ==
    << Entry(BackendPackageJson, Json("compact", E0)),
       Entry(MiddlewareAuthJs, Text(<<Req("d", "bcrypt")>>)) >>

FrontendFull ==
    << Entry(LayoutTsx, Text(<<Imp("next")>>)),
       Entry(FrontendPackageJson, Json("compact", E0)),
       Entry(PageTsx, Text(<<Imp("react")>>)),
       Entry(TailwindConfigJs, Text(<<Txt("module.exports = {}")>>)),
       Entry(FrontendEnvLocal, Text(<<Txt("NEXT_PUBLIC_API_URL=http://localhost:5000")>>)) >>

FrontendPartial == << Entry(PageTsx, Text(<<Imp("react")>>)) >>

ProviderOutputs(phase) ==
    CASE phase = "backend" -> {BackendFull, BackendPartial, <<>>}
      [] phase = "frontend" -> {FrontendFull, FrontendPartial, <<>>}
      [] phase = "database" ->
             {<<Entry(SchemaSql, Text(<<Txt("CREATE TABLE users")>>))>>, <<>>}
      [] phase = "infrastructure" ->
             {<<Entry(Dockerfile, Text(<<Txt("FROM node:20")>>))>>,
              <<>>}
      [] phase = "documentation" ->
             {<<Entry(ReadmeMd, Text(<<Txt("# My Shop")>>))>>, <<>>}

\* savedFiles.push(path) unless the model produced the file
PushIfMissing(saved, generated, path) ==
    IF path \in generated THEN saved ELSE Append(saved, path)

CountFailed(phaseResults) ==
    Len(SelectSeq(phaseResults, LAMBDA r : r.error # "null"))

FinalStatus_AnyFailed(failed, total, testSuccess) ==
    IF failed = 0 THEN "deployed" ELSE "failed"

FinalStatus_TestDecides(failed, total, testSuccess) ==
    IF failed = 0 /\ testSuccess THEN "deployed"
    ELSE IF failed = total \/ ~testSuccess THEN "failed"
    ELSE "deployed"

\* Determine final status
FinalStatus(failed, total, testSuccess) ==
    IF failed = 0 /\ testSuccess THEN "deployed"
    ELSE IF failed = total THEN "failed"
    ELSE "deployed"

\* from updatePhase(finalizing, completed) to the delayed cleanup
Finish(st, testSuccess) ==
    LET s1 == updatePhase(st, "finalizing", "completed", 0)
        failed == CountFailed(s1.run.phaseResults)
        finalStatus == FinalStatus(failed, Len(s1.run.phaseResults), testSuccess)
        s2 == updateProject(s1,
                  [status |-> finalStatus,
                   testResults |-> IF testSuccess THEN "success" ELSE "failure",
                   error |-> IF failed > 0
                             THEN ToString(failed) \o " phase(s) had errors"
                             ELSE "null"])
        s3 == addLog(s2, "Project generated", "success")
        s4 == addLog(s3, "Total: " \o ToString(Len(s3.run.savedFiles)) \o " files, "
                         \o ToString(SumLines(s3.run.phaseResults, 1))
                         \o " lines of code", "success")
        s5 == IF failed > 0
              THEN addLog(s4, ToString(failed)
                              \o " phase(s) had errors and may need regeneration",
                          "warning")
              ELSE s4
    IN [sendProgressUpdate(s5, "complete") EXCEPT !.pc = "grace"]

(***************************************************************************)
(* The steps of one generation request, one per await of the code.         *)
(***************************************************************************)
\* POST /api/generate, up to the first await of runBatchGeneration
StartGeneration ==
    /\ pc = "idle"
    /\ project # NoProject
    /\ project.status # "generating"
    /\ LET s0 == updateProject(Cur, [status |-> "generating"])
           s1 == [s0 EXCEPT !.session = NewSession, !.run = NoRun]
           s2 == updatePhase(s1, "setup", "in_progress", 0)
           s3 == addLog(s2, "Creating project folder structure...", "info")
       IN Becomes([s3 EXCEPT !.pc = "setup"])

\* createProjectStructure returned
SetupReturns ==
    /\ pc = "setup"
    /\ LET s1 == addLog(Cur, "Project path", "info")
           s2 == updatePhase(s1, "setup", "completed", 0)
       IN Becomes(BeginPhase(s2, 1))

\* createProjectStructure threw
SetupThrows ==
    /\ pc = "setup"
    /\ Becomes(Catch(Cur, "EACCES: permission denied, mkdir"))

\* generatePhase got the response files: it retries or returns them
ProviderReturnsWith(files) ==
    IF ShouldRetry(ContentPhases[run.phase], files, run.retryCount)
    THEN Becomes([Cur EXCEPT !.run.retryCount = @ + 1])
    ELSE Becomes(AfterPhase(PhaseSucceeded(Cur, files)))

\* the provider call of generatePhase returned a response
ProviderReturns ==
    /\ pc = "provider"
    /\ \E files \in ProviderOutputs(ContentPhases[run.phase]) :
          ProviderReturnsWith(files)

\* the provider call threw (provider error, unexpected response type)
ProviderThrows ==
    /\ pc = "provider"
    /\ Becomes(AfterPhase(PhaseFailed(Cur, "provider error")))

\* saveMultipleFiles wrote every file
SaveFilesReturns ==
    /\ pc = "saving"
    /\ Becomes([Cur EXCEPT !.disk = @ \cup Keys(run.allFiles),
                           !.run.savedFiles = PathsOf(run.allFiles),
                           !.pc = "manifests"])

\* saveFile threw on the file after the first k
SaveFilesThrows ==
    /\ pc = "saving"
    /\ \E k \in 0..(Len(run.allFiles) - 1) :
          Becomes(Catch([Cur EXCEPT !.disk =
                             @ \cup {run.allFiles[i].path : i \in 1..k}],
                        "ENOSPC: no space left on device, write"))

\* createBackendPackageJson / createFrontendPackageJson where the model
\* produced none, then assignPorts
ManifestsReturn ==
    /\ pc = "manifests"
    /\ LET generated == Keys(run.allFiles)
           saved == PushIfMissing(PushIfMissing(run.savedFiles, generated,
                                                BackendPackageJson),
                                  generated, FrontendPackageJson)
           s1 == [Cur EXCEPT !.run.savedFiles = saved,
                             !.disk = @ \cup {BackendPackageJson, FrontendPackageJson}]
           s2 == IF BackendPackageJson \in generated THEN s1
                 ELSE addLog(s1, "Created backend/package.json", "info")
           s3 == IF FrontendPackageJson \in generated THEN s2
                 ELSE addLog(s2, "Created frontend/package.json", "info")
           s4 == addLog(s3, "Assigning ports for deployment...", "info")
           r == assignPorts(s4.assignments, GenProjectId, GenConfig.name)
       IN Becomes([s4 EXCEPT !.assignments = r.assignments,
                             !.lastCall = [op |-> "assign",
                                           projectId |-> GenProjectId,
                                           existing |-> r.existing, ret |-> r.ret],
                             !.pc = "env"])

ManifestsThrow ==
    /\ pc = "manifests"
    /\ Becomes(Catch(Cur, "ENOSPC: no space left on device, write"))

\* the two writeFile calls of the .env files, saveProjectMetadata and the
\* update of the project to testing
EnvAndMetadataReturn ==
    /\ pc = "env"
    /\ LET saved == run.savedFiles \o <<BackendEnv, FrontendEnvLocal, ProjectJson>>
           s1 == [Cur EXCEPT !.run.savedFiles = saved,
                             !.disk = @ \cup {BackendEnv, FrontendEnvLocal, ProjectJson}]
           s2 == addLog(s1, "Ports assigned", "success")
           s3 == updateProject(s2, [status |-> "testing", generatedFiles |-> saved])
       IN IF \E f \in SeqRange(saved) : IsServerJs(f)
          THEN Becomes([addLog(s3, "Running tests on generated code...", "thinking")
                        EXCEPT !.pc = "testing"])
          ELSE Becomes(Finish(addLog(s3, "No server.js found, skipping code validation",
                                     "info"), TRUE))

EnvAndMetadataThrow ==
    /\ pc = "env"
    /\ Becomes(Catch(Cur, "ENOSPC: no space left on device, write"))

\* testCode returned (it catches the executor's errors itself)
SmokeTestReturns ==
    /\ pc = "testing"
    /\ \E success \in BOOLEAN :
          Becomes(Finish(addLog(Cur, IF success THEN "Code validation passed"
                                     ELSE "Code validation warning",
                                IF success THEN "success" ELSE "warning"),
                         success))

\* the setTimeout callback, 5000 ms after completion
DelayedCleanup ==
    /\ pc = "grace"
    /\ Becomes([Cur EXCEPT !.session = NoSession, !.pc = "done"])

GenInit == PortsIdle /\ FixIdle /\ GenIdle /\ RestIdle

GenNext ==
    \/ StartGeneration
    \/ SetupReturns
    \/ SetupThrows
    \/ ProviderReturns
    \/ ProviderThrows
    \/ SaveFilesReturns
    \/ SaveFilesThrows
    \/ ManifestsReturn
    \/ ManifestsThrow
    \/ EnvAndMetadataReturn
    \/ EnvAndMetadataThrow
    \/ SmokeTestReturns
    \/ DelayedCleanup

SpecGen == GenInit /\ [][GenNext]_vars

\* a step of runBatchGeneration: an awaited call returns or throws
RunStep ==
    \/ SetupReturns \/ SetupThrows
    \/ ProviderReturns \/ ProviderThrows
    \/ SaveFilesReturns \/ SaveFilesThrows
    \/ ManifestsReturn \/ ManifestsThrow
    \/ EnvAndMetadataReturn \/ EnvAndMetadataThrow
    \/ SmokeTestReturns

\* every awaited call of a run settles
SpecGenFair == SpecGen /\ WF_vars(RunStep)

(***************************************************************************)
(* One invocation of generatePhase on its own: run.returned keeps the keys *)
(* of each response of the invocation, pc how it ended.                    *)
(***************************************************************************)
\* the provider call returned a response: generatePhase retries or returns
PhaseProviderReturns ==
    /\ pc = "provider"
    /\ \E files \in ProviderOutputs(ContentPhases[run.phase]) :
          /\ run' = [run EXCEPT
                        !.returned = Append(@, PathsOf(files)),
                        !.retryCount =
                            IF ShouldRetry(ContentPhases[run.phase], files, @)
                            THEN @ + 1 ELSE @,
                        !.allFiles =
                            IF ShouldRetry(ContentPhases[run.phase], files,
                                           run.retryCount)
                            THEN @ ELSE files]
          /\ pc' = IF ShouldRetry(ContentPhases[run.phase], files,
                                  run.retryCount)
                   THEN "provider" ELSE "returned"
    /\ UNCHANGED <<project, session, disk, phaseEvents, sinks, emitted,
                   cancelReply, portVars, fixVars, restVars>>

\* the provider call threw: the catch block rethrows
PhaseProviderThrows ==
    /\ pc = "provider"
    /\ pc' = "threw"
    /\ run' = [run EXCEPT !.caught = "provider error"]
    /\ UNCHANGED <<project, session, disk, phaseEvents, sinks, emitted,
                   cancelReply, portVars, fixVars, restVars>>

\* generatePhase(phase, config) has just been called, for any phase and
\* either config
PhaseInit ==
    /\ PortsIdle /\ RestIdle
    /\ fxFiles = <<>> /\ fxOut = <<>>
    /\ fxConfig \in {[name |-> n] : n \in ProjectNames}
    /\ project = [NewProject EXCEPT !.status = "generating"]
    /\ session = NoSession /\ disk = {} /\ phaseEvents = <<>>
    /\ sinks = [k \in Sinks |-> NoSink] /\ emitted = <<>>
    /\ cancelReply = "none"
    /\ pc = "provider"
    /\ \E k \in 1..Len(ContentPhases) : run = [NoRun EXCEPT !.phase = k]

PhaseNext == PhaseProviderReturns \/ PhaseProviderThrows

\* every provider call returns or throws
SpecPhase ==
    PhaseInit /\ [][PhaseNext]_vars
        /\ WF_vars(PhaseProviderReturns \/ PhaseProviderThrows)

\* deleteProject(id), as DELETE /api/projects/:id calls it: the project
\* leaves the store and its ports are released (outputPath is never set on
\* this path, so no folder is removed)
deleteProject(st) ==
    IF st.project = NoProject THEN st
    ELSE [st EXCEPT !.project = NoProject,
                    !.assignments = releasePorts(@, GenProjectId),
                    !.lastCall = [op |-> "release", projectId |-> GenProjectId]]

\* DELETE /api/projects/:id of a project in the store
DeleteProject ==
    /\ project # NoProject
    /\ Becomes(deleteProject(Cur))

DeleteNext ==
    \/ GenNext
    \/ DeleteProject

SpecDelete == GenInit /\ [][DeleteNext]_vars

(***************************************************************************)
(* Properties of a generation run                                          *)
(***************************************************************************)
WeightOf(phaseId) == BATCH_PHASES[PhaseIndex(phaseId)].weight

\* no phase event takes a completed phase to another status
NoRegression ==
    \A i \in 1..Len(phaseEvents) : \A j \in (i + 1)..Len(phaseEvents) :
        (phaseEvents[i].phaseId = phaseEvents[j].phaseId
         /\ phaseEvents[i].status = "completed")
            => phaseEvents[j].status = "completed"

\* C3 as stated: within one session, as long as no phase goes from completed
\* back to another status, every recomputed progress value is greater than or
\* equal to the previous one, whatever the status change (to in_progress, to
\* completed, to failed).
C3_ProgressNeverDrops ==
    NoRegression =>
        \A i \in 1..(Len(phaseEvents) - 1) :
            phaseEvents[i + 1].progress >= phaseEvents[i].progress

\* C3 amended: within one session, as long as no phase goes from completed
\* back to another status, a change to in_progress or to completed recomputes
\* a progress greater than or equal to the previous one, and a change from
\* in_progress to failed lowers the progress by half the phase's weight.
C3_ProgressDropsOnlyOnFailure ==
    NoRegression =>
        \A i \in 1..(Len(phaseEvents) - 1) :
            IF phaseEvents[i + 1].status = "failed"
            THEN phaseEvents[i + 1].progress
                     = phaseEvents[i].progress - WeightOf(phaseEvents[i + 1].phaseId)
            ELSE phaseEvents[i + 1].progress >= phaseEvents[i].progress

C3_Witness ==
    /\ pc = "grace"
    /\ \E i \in 1..Len(phaseEvents) : \E j \in 1..Len(phaseEvents) :
          /\ i < j
          /\ phaseEvents[i].status = "failed"
          /\ phaseEvents[j].status = "completed"
          /\ phaseEvents[j].phaseId \in SeqRange(ContentPhases)

Threw(r) == r.error # "null"

AllPhasesRan == Len(run.phaseResults) = Len(ContentPhases)

ExactlyOneThrew == CountFailed(run.phaseResults) = 1

SomePhaseReturnedFiles == \E i \in 1..Len(run.returned) : run.returned[i].keys # {}

ReturnedPaths == UNION {run.returned[i].keys : i \in 1..Len(run.returned)}

RunEnded == pc \in {"grace", "done"} /\ run.phase > 0

EveryPhaseYieldedNoFiles ==
    /\ AllPhasesRan
    /\ \A i \in 1..Len(run.returned) : run.returned[i].keys = {}

\* C5: in a run where every content phase yields zero files, by throwing or
\* by returning an empty file map, the project ends with status failed and a
\* non-null error, and nothing is written to disk.
C5_TotalFailure ==
    EveryPhaseYieldedNoFiles
        => /\ pc = "done"
           /\ project.status = "failed"
           /\ project.error # "null"
           /\ disk = {}

C5_Witness ==
    /\ EveryPhaseYieldedNoFiles
    /\ pc = "done"
    /\ Threw(run.phaseResults[1])
    /\ ~Threw(run.phaseResults[2])
    /\ project.status = "failed"

\* C6: a content phase whose output still lacks a critical file after the
\* retries are exhausted gets the status failed, never completed, and the run
\* goes on to the next phase.
C6_InvalidPhaseMarkedFailed ==
    \A phase \in run.invalid :
        /\ session # NoSession => session.phases[PhaseIndex(phase)].status = "failed"
        /\ \A i \in 1..Len(phaseEvents) :
              phaseEvents[i].phaseId = phase => phaseEvents[i].status # "completed"

\* the run reached the final status determination
ReachedFinalStatus == pc = "grace" \/ (pc = "done" /\ run.caught = "null" /\ run.phase > 0)

EveryPhaseFailed == CountFailed(run.phaseResults) = Len(run.phaseResults)

\* C7: at the final status determination the project is failed if every
\* content phase failed and deployed otherwise, also when the smoke test
\* failed with no failed phase, and its error is non-null exactly when at
\* least one phase failed.
C7_FinalStatus ==
    ReachedFinalStatus
        => /\ project.status = (IF EveryPhaseFailed THEN "failed" ELSE "deployed")
           /\ (project.error # "null") <=> (CountFailed(run.phaseResults) > 0)

C7_Witness ==
    /\ pc = "grace"
    /\ project.testResults = "failure"
    /\ CountFailed(run.phaseResults) = 0
    /\ project.status = "deployed"
    /\ project.error = "null"

(***************************************************************************)
(* Stream subscriptions and cancellation (routes/generate.js)              *)
(***************************************************************************)
LOG_TAIL == 50

\* logs.slice(-LOG_TAIL)
LastLogs(logs) ==
    IF Len(logs) <= LOG_TAIL THEN logs
    ELSE SubSeq(logs, Len(logs) - LOG_TAIL + 1, Len(logs))

\* get or create generation tracking
GetOrCreateSession(st) ==
    IF st.session # NoSession THEN st.session
    ELSE [NewSession EXCEPT !.status = IF st.project.status = "generating"
                                       THEN "generating" ELSE "idle"]

Snapshot_NoLogs(sess, at) ==
    [at |-> at, phases |-> sess.phases, progress |-> sess.progress,
     logs |-> <<>>, stats |-> sess.stats, status |-> sess.status]

\* the state event written to a new client
Snapshot(sess, at) ==
    [at |-> at, phases |-> sess.phases, progress |-> sess.progress,
     logs |-> LastLogs(sess.logs), stats |-> sess.stats, status |-> sess.status]

\* GET /:projectId/stream on connection k (connections are numbered in the
\* order they are opened)
Subscribe(k) ==
    /\ sinks[k].conn = "none"
    /\ \A j \in Sinks : j < k => sinks[j].conn # "none"
    /\ LET sess == GetOrCreateSession(Cur)
           at == Len(emitted)
       IN /\ session' = [sess EXCEPT !.clients = Append(@, k)]
          /\ sinks' = [sinks EXCEPT ![k] =
                          [conn |-> "open",
                           joined |-> pc,
                           received |-> <<[type |-> "connected", n |-> at],
                                          [type |-> "state", n |-> at]>>,
                           snapshot |-> Snapshot(sess, at)]]
    /\ UNCHANGED <<project, pc, run, disk, phaseEvents, emitted, cancelReply,
                   portVars, fixVars, restVars>>

\* the close event of connection k
CloseSink(k) ==
    /\ sinks[k].conn = "open"
    /\ sinks' = [sinks EXCEPT ![k].conn = "closed"]
    /\ session' = IF session = NoSession THEN session
                  ELSE [session EXCEPT !.clients = SelectSeq(@, LAMBDA c : c # k)]
    /\ UNCHANGED <<project, pc, run, disk, phaseEvents, emitted, cancelReply,
                   portVars, fixVars, restVars>>

\* POST /:projectId/cancel while the project is generating
CancelAccepted ==
    /\ project.status = "generating"
    /\ LET s1 == sendProgressUpdate(Cur, "cancelled")
           s2 == updateProject([s1 EXCEPT !.session = NoSession],
                               [status |-> "draft",
                                error |-> "Generation cancelled by user"])
       IN Becomes([s2 EXCEPT !.cancelReply = "accepted"])

\* POST /:projectId/cancel otherwise: 400 NOT_GENERATING
CancelRejected ==
    /\ project.status # "generating"
    /\ cancelReply' = "rejected"
    /\ UNCHANGED <<project, session, pc, run, disk, phaseEvents, sinks, emitted,
                   portVars, fixVars, restVars>>

\* GET /:projectId/status
StatusReply == [status |-> project.status, isActive |-> session # NoSession,
                progress |-> IF session # NoSession THEN session.progress ELSE 0]

\* the response the provider gives in the streamed runs
CompleteOutput(phase) ==
    CASE phase = "backend" -> BackendFull
      [] phase = "frontend" -> FrontendFull
      [] phase = "database" -> <<Entry(SchemaSql, Text(<<Txt("CREATE TABLE users")>>))>>
      [] phase = "infrastructure" -> <<Entry(Dockerfile, Text(<<Txt("FROM node:20")>>))>>
      [] phase = "documentation" -> <<Entry(ReadmeMd, Text(<<Txt("# My Shop")>>))>>

\* the provider is up during the whole run
ProviderReturnsComplete ==
    /\ pc = "provider"
    /\ CountFailed(run.phaseResults) = 0
    /\ ProviderReturnsWith(CompleteOutput(ContentPhases[run.phase]))

\* the provider is down during the whole run
ProviderThrowsAgain ==
    /\ run.allFiles = <<>>
    /\ ProviderThrows

StreamNext ==
    \/ StartGeneration
    \/ SetupReturns
    \/ SetupThrows
    \/ ProviderReturnsComplete
    \/ ProviderThrowsAgain
    \/ SaveFilesReturns
    \/ ManifestsReturn
    \/ EnvAndMetadataReturn
    \/ SmokeTestReturns
    \/ DelayedCleanup
    \/ \E k \in Sinks : Subscribe(k)
    \/ \E k \in Sinks : CloseSink(k)
    \/ CancelAccepted
    \/ CancelRejected

SpecStream == GenInit /\ [][StreamNext]_vars

(***************************************************************************)
(* A second generation request during the grace delay of the first run     *)
(***************************************************************************)
MaxRuns == 2

\* the generation requests accepted so far
RunsAccepted ==
    Cardinality({i \in 1..Len(phaseEvents) :
                    /\ phaseEvents[i].phaseId = "setup"
                    /\ phaseEvents[i].status = "in_progress"})

\* POST /api/generate accepted while the cleanup timer of the completed run
\* is pending (the project is deployed, not generating)
StartGenerationAgain ==
    /\ pc = "grace"
    /\ ~run.staleCleanup
    /\ RunsAccepted < MaxRuns
    /\ project # NoProject
    /\ project.status # "generating"
    /\ LET s0 == updateProject(Cur, [status |-> "generating"])
           s1 == [s0 EXCEPT !.session = NewSession,
                            !.run = [NoRun EXCEPT !.staleCleanup = TRUE]]
           s2 == updatePhase(s1, "setup", "in_progress", 0)
           s3 == addLog(s2, "Creating project folder structure...", "info")
       IN Becomes([s3 EXCEPT !.pc = "setup"])

\* the setTimeout callback of the earlier run fires
StaleCleanup ==
    /\ run.staleCleanup
    /\ Becomes([Cur EXCEPT !.session = NoSession, !.run.staleCleanup = FALSE])

RegenNext ==
    \/ StartGeneration
    \/ StartGenerationAgain
    \/ SetupReturns
    \/ SetupThrows
    \/ ProviderReturnsComplete
    \/ ProviderThrowsAgain
    \/ SaveFilesReturns
    \/ ManifestsReturn
    \/ EnvAndMetadataReturn
    \/ SmokeTestReturns
    \/ DelayedCleanup
    \/ StaleCleanup

SpecRegen == GenInit /\ [][RegenNext]_vars

(***************************************************************************)
(* Response parser: parseMultiFileResponse                                 *)
(*                                                                         *)
(* A response is a sequence of tokens; each token is a piece of text that  *)
(* the regular expression can only take or leave as a whole.               *)
(***************************************************************************)
MaxContentLen == 2

ContentTokens == {" ", "\n", "===", "END FILE", "FILE:", "x"}

\* \s
IsSpace(t) == t \in {" ", "\n"}

\* [^\s=] ("END FILE" holds a space, "===" is made of '=')
IsPathToken(t) == t \notin {" ", "\n", "===", "END FILE"}

END_MARKER == <<"===", "END FILE", "===">>

\* '===FILE: <path>===', newline, content, '===END FILE==='
SerializeEntry(e) ==
    <<"===", "FILE:", " ", e.path, "===", "\n">> \o e.content \o END_MARKER

RECURSIVE Serialize(_)
Serialize(m) ==
    IF m = <<>> THEN <<>> ELSE SerializeEntry(Head(m)) \o Serialize(Tail(m))

\* \s* from index i: the first index whose token is not white space
RECURSIVE SkipSpaces(_, _)
SkipSpaces(t, i) ==
    IF i <= Len(t) /\ IsSpace(t[i]) THEN SkipSpaces(t, i + 1) ELSE i

\* [^\s=]* from index i
RECURSIVE SkipPathTokens(_, _)
SkipPathTokens(t, i) ==
    IF i <= Len(t) /\ IsPathToken(t[i]) THEN SkipPathTokens(t, i + 1) ELSE i

TokenAt(t, i) == IF i \in 1..Len(t) THEN t[i] ELSE "<end>"

RECURSIVE Concat(_)
Concat(ts) == IF ts = <<>> THEN "" ELSE Head(ts) \o Concat(Tail(ts))

\* ===FILE:\s*([^\s=]+)\s*===\n tried at index i
MatchHeader(t, i) ==
    LET j == SkipSpaces(t, i + 2)
        k == SkipPathTokens(t, j)
        l == SkipSpaces(t, k)
    IN IF /\ TokenAt(t, i) = "===" /\ TokenAt(t, i + 1) = "FILE:"
          /\ k > j
          /\ TokenAt(t, l) = "===" /\ TokenAt(t, l + 1) = "\n"
       THEN [ok |-> TRUE, path |-> Concat(SubSeq(t, j, k - 1)), next |-> l + 2]
       ELSE [ok |-> FALSE]

IsEndMarkerAt(t, m) == m + 2 <= Len(t) /\ SubSeq(t, m, m + 2) = END_MARKER

\* ([\s\S]*?)===END FILE===: the first end marker from j on, 0 if none
FindEnd(t, j) ==
    IF \E m \in j..Len(t) : IsEndMarkerAt(t, m)
    THEN CHOOSE m \in j..Len(t) :
             IsEndMarkerAt(t, m) /\ \A n \in j..(m - 1) : ~IsEndMarkerAt(t, n)
    ELSE 0

MatchesAt(t, i) == MatchHeader(t, i).ok /\ FindEnd(t, MatchHeader(t, i).next) # 0

RECURSIVE TrimStart(_)
TrimStart(c) == IF c # <<>> /\ IsSpace(Head(c)) THEN TrimStart(Tail(c)) ELSE c

RECURSIVE TrimEnd(_)
TrimEnd(c) ==
    IF c # <<>> /\ IsSpace(c[Len(c)]) THEN TrimEnd(SubSeq(c, 1, Len(c) - 1)) ELSE c

Trim_StartOnly(c) == TrimStart(c)

\* String.prototype.trim
Trim(c) == TrimEnd(TrimStart(c))

\* the while loop over fileRegex.exec, lastIndex at pos
RECURSIVE ParseFrom(_, _, _)
ParseFrom(t, pos, files) ==
    IF \E i \in pos..Len(t) : MatchesAt(t, i)
    THEN LET i == CHOOSE x \in pos..Len(t) :
                      MatchesAt(t, x) /\ \A y \in pos..(x - 1) : ~MatchesAt(t, y)
             h == MatchHeader(t, i)
             m == FindEnd(t, h.next)
         IN ParseFrom(t, m + 3,
                      Put(files, h.path, Trim(SubSeq(t, h.next, m - 1))))
    ELSE files

parseMultiFileResponse(response) == ParseFrom(response, 1, <<>>)

(***************************************************************************)
(* The file maps that are serialized and parsed back.                      *)
(***************************************************************************)
RECURSIVE TokenSeqs(_)
TokenSeqs(n) ==
    IF n = 0 THEN {<<>>}
    ELSE TokenSeqs(n - 1)
         \cup {Append(c, x) : c \in {d \in TokenSeqs(n - 1) : Len(d) = n - 1},
                              x \in ContentTokens}

ContainsEndMarker(c) == \E m \in 1..Len(c) : IsEndMarkerAt(c, m)

ParserContents ==
    {c \in TokenSeqs(MaxContentLen)
           \cup {<<"x", "===", "END FILE">>,
                 <<"===", "FILE:", " ", "b.ts", "===", "\n", "x">>,
                 <<"\n", "x", " ", "x", "\n">>} : ~ContainsEndMarker(c)}

ParserPaths == {"a.js", "src/b.ts"}

ParserInputs ==
    {<<Entry(p, c)>> : p \in ParserPaths, c \in ParserContents}
    \cup {<<Entry(p, c), Entry(q, d)>> :
              p \in {"a.js"}, q \in {"src/b.ts"},
              c \in ParserContents, d \in ParserContents}

ParseInit ==
    /\ PortsIdle /\ FixIdle /\ GenIdle /\ DeployIdle
    /\ psIn \in ParserInputs
    /\ psOut = NotParsed

\* serialize the map and parse the text
ParseSerialized ==
    /\ psOut = NotParsed
    /\ psOut' = [parsed |-> TRUE, files |-> parseMultiFileResponse(Serialize(psIn))]
    /\ UNCHANGED <<psIn, portVars, fixVars, genVars, deployVars>>

ParseNext == ParseSerialized

SpecParse == ParseInit /\ [][ParseNext]_vars

(***************************************************************************)
(* Local deployment: routes/deploy.js                                      *)
(***************************************************************************)
Sides == {"backend", "frontend"}

\* the processes object of a start request once both children are spawned
\* (backend, frontend: the handle is not null)
Processes(r, portAssignment) ==
    [present |-> TRUE, owner |-> r, backend |-> TRUE, frontend |-> TRUE,
     backendPort |-> portAssignment.backend,
     frontendPort |-> portAssignment.frontend]

CloseHandler_Recreates(reg, side) ==
    IF reg.present THEN [reg EXCEPT ![side] = FALSE]
    ELSE [present |-> TRUE, owner |-> 0, backend |-> FALSE,
          frontend |-> FALSE, backendPort |-> 0, frontendPort |-> 0]

\* the 'close' handler of a child: the handle in the registered entry, if
\* there is one, becomes null
CloseHandler(reg, side) ==
    IF reg.present THEN [reg EXCEPT ![side] = FALSE] ELSE reg

\* SIGTERM to the children whose handle the entry still holds
Killed(reg, ch) ==
    IF reg.present
    THEN [ch EXCEPT ![reg.owner] =
            [s \in Sides |-> IF reg[s] /\ @[s] = "running" THEN "killed"
                             ELSE @[s]]]
    ELSE ch

\* GET /:projectId/status
DeployStatusReply ==
    IF registry.present
    THEN [status |-> "running",
          urls |-> [frontend |-> IF registry.frontend
                                 THEN registry.frontendPort ELSE "null",
                    backend |-> IF registry.backend
                                THEN registry.backendPort ELSE "null"]]
    ELSE [status |-> "stopped", urls |-> "null"]

\* the synchronous tail of POST /:projectId/local, from the spawns to the
\* 3 second wait
SpawnAndRegister(r) ==
    /\ children' = [children EXCEPT ![r] = [s \in Sides |-> "running"]]
    /\ registry' = Processes(r, getAssignment(assignments, GenProjectId).value)
    /\ project' = [project EXCEPT !.status = "deployed"]
    /\ startPc' = [startPc EXCEPT ![r] = "waiting"]
    /\ depLog' = [depLog EXCEPT !.registeredAfterStop = @ \/ stopPc # "new"]

\* POST /:projectId/local up to its first await
StartRequest(r) ==
    /\ startPc[r] = "new"
    /\ IF ~getAssignment(assignments, GenProjectId).found
       THEN /\ startPc' = [startPc EXCEPT ![r] = "rejected"]
            /\ UNCHANGED <<registry, children, depLog, project>>
       ELSE IF registry.present
       THEN /\ startPc' = [startPc EXCEPT ![r] = "alreadyRunning"]
            /\ UNCHANGED <<registry, children, depLog, project>>
       ELSE \E skipInstall \in BOOLEAN :
               IF skipInstall THEN SpawnAndRegister(r)
               ELSE /\ startPc' = [startPc EXCEPT ![r] = "installing"]
                    /\ UNCHANGED <<registry, children, depLog, project>>
    /\ UNCHANGED <<stopPc, portVars, fixVars, parseVars, session, pc, run,
                   disk, phaseEvents, sinks, emitted, cancelReply>>

\* runNpmInstall has settled
InstallDone(r) ==
    /\ startPc[r] = "installing"
    /\ SpawnAndRegister(r)
    /\ UNCHANGED <<stopPc, portVars, fixVars, parseVars, session, pc, run,
                   disk, phaseEvents, sinks, emitted, cancelReply>>

\* the 3 second wait is over: the reply "Application starting..."
StartReplies(r) ==
    /\ startPc[r] = "waiting"
    /\ startPc' = [startPc EXCEPT ![r] = "replied"]
    /\ UNCHANGED <<registry, children, stopPc, depLog, portVars, fixVars, parseVars,
                   genVars>>

\* the end of POST /:projectId/stop
StopFinishes ==
    /\ project' = [project EXCEPT !.status = "stopped"]
    /\ stopPc' = "replied"

\* POST /:projectId/stop up to its first await
StopRequest ==
    /\ stopPc = "new"
    /\ children' = Killed(registry, children)
    /\ registry' = NoEntry
    /\ depLog' = [depLog EXCEPT !.startedBeforeStop =
                                   \E r \in StartRequests : startPc[r] = "replied"]
    /\ \E stopDocker \in BOOLEAN :
          IF stopDocker
          THEN /\ stopPc' = "docker"
               /\ UNCHANGED project
          ELSE StopFinishes
    /\ UNCHANGED <<startPc, portVars, fixVars, parseVars, session, pc, run,
                   disk, phaseEvents, sinks, emitted, cancelReply>>

\* docker-compose down has returned
DockerDown ==
    /\ stopPc = "docker"
    /\ StopFinishes
    /\ UNCHANGED <<registry, children, startPc, depLog, portVars, fixVars,
                   parseVars, session, pc, run, disk, phaseEvents, sinks,
                   emitted, cancelReply>>

\* the 'close' event of a child, after a SIGTERM or on its own
ChildCloses(r, side) ==
    /\ children[r][side] \in {"running", "killed"}
    /\ children' = [children EXCEPT ![r][side] =
                       IF @ = "killed" THEN "reaped" ELSE "exited"]
    /\ registry' = CloseHandler(registry, side)
    /\ UNCHANGED <<startPc, stopPc, depLog, portVars, fixVars, parseVars,
                   genVars>>

DeployInit ==
    /\ FixIdle /\ ParseIdle /\ DeployIdle
    /\ lastCall = NoCall
    /\ session = NoSession /\ pc = "idle" /\ run = NoRun /\ disk = {}
    /\ phaseEvents = <<>> /\ sinks = [k \in Sinks |-> NoSink]
    /\ emitted = <<>> /\ cancelReply = "none"
    /\ \E generated \in BOOLEAN :
          IF generated
          THEN /\ assignments =
                     assignPorts(<<>>, GenProjectId, "Blog").assignments
               /\ project = [NewProject EXCEPT !.status = "deployed"]
          ELSE /\ assignments = <<>>
               /\ project = NewProject

DeployNext ==
    \/ \E r \in StartRequests : StartRequest(r)
    \/ \E r \in StartRequests : InstallDone(r)
    \/ \E r \in StartRequests : StartReplies(r)
    \/ StopRequest
    \/ DockerDown
    \/ \E r \in StartRequests, side \in Sides : ChildCloses(r, side)

SpecDeploy == DeployInit /\ [][DeployNext]_vars

\* a child that was sent SIGTERM handles the signal and keeps running (or,
\* spawned with shell: true, the shell ends and the server does not)
ChildIgnoresSignal(r, side) ==
    /\ children[r][side] = "killed"
    /\ children' = [children EXCEPT ![r][side] = "ignoring"]
    /\ UNCHANGED <<registry, startPc, stopPc, depLog, portVars, fixVars,
                   parseVars, genVars>>

SuperviseNext ==
    \/ DeployNext
    \/ \E r \in StartRequests, side \in Sides : ChildIgnoresSignal(r, side)

\* every handler that can run does, and every child answers its signal one
\* way or the other
SpecSupervise ==
    DeployInit /\ [][SuperviseNext]_vars /\ WF_vars(SuperviseNext)

\* the content ends in '===END FILE': with the '===' that follows it in the
\* serialized text it reads as an end marker
EndsInMarkerStart(c) ==
    Len(c) >= 2 /\ SubSeq(c, Len(c) - 1, Len(c)) = <<"===", "END FILE">>

IncrementalTypes == {"log", "phase", "stats", "complete", "error", "cancelled"}

TypesReceived(k) == {sinks[k].received[i].type : i \in 1..Len(sinks[k].received)}

\* C12: every log, phase and stats event of a run is written, in order, to
\* every sink subscribed to the project at the moment of the event, also to a
\* sink that subscribed before the generation request was accepted.
C12_EventsReachEverySubscriber ==
    /\ \A i \in 1..Len(emitted) :
          emitted[i].type \in {"log", "phase", "stats"}
              => emitted[i].open \subseteq emitted[i].to
    /\ \A k \in Sinks : \A i \in 1..(Len(sinks[k].received) - 1) :
          sinks[k].received[i].n <= sinks[k].received[i + 1].n

IsSuffix(q, r) == Len(q) <= Len(r) /\ q = SubSeq(r, Len(r) - Len(q) + 1, Len(r))

C14_Cancel ==
    [][/\ (Len(emitted') = Len(emitted) + 1
           /\ emitted'[Len(emitted')].type = "cancelled")
             => /\ project.status = "generating"
                /\ cancelReply' = "accepted"
                /\ \A k \in Sinks :
                      sinks[k].conn = "open"
                          => sinks'[k].received
                                = Append(sinks[k].received,
                                         [type |-> "cancelled", n |-> Len(emitted')])
                /\ session' = NoSession
                /\ project'.status = "draft"
       /\ (cancelReply' = "rejected" /\ cancelReply # "rejected")
             => session' = session /\ project' = project
    ]_vars

\* C15: when a run fails fatally the project is set to failed with the error
\* message, every sink subscribed at that moment receives an error event, and
\* the session is removed at once.
C15_FatalFailure ==
    [][(run.caught = "null" /\ run'.caught # "null")
          => /\ project'.status = "failed"
             /\ project'.error = run'.caught
             /\ session' = NoSession
             /\ pc' = "done"
             /\ \A k \in Sinks :
                   sinks[k].conn = "open"
                       => /\ sinks'[k].received # <<>>
                          /\ sinks'[k].received[Len(sinks'[k].received)].type = "error"
    ]_vars

\* C16: after a run completes its session stays for the grace delay and is
\* then removed, and a sink that subscribes during the grace delay still
\* receives the completion event.
C16_LateSubscriberSeesCompletion ==
    /\ (pc = "grace" /\ \A i \in 1..Len(emitted) : emitted[i].type # "cancelled")
          => session # NoSession
    /\ \A k \in Sinks :
          (pc = "done" /\ sinks[k].joined = "grace")
              => "complete" \in TypesReceived(k)

\* C17: a session is in the session map only from the acceptance of a
\* generation request to its removal, so the status endpoint reports isActive
\* only while a generation is active or in its grace delay.
C17_SessionOnlyWhileGenerating ==
    StatusReply.isActive => pc \notin {"idle", "done"}

\* a stop request began after a start request had replied, has replied
\* itself, and no start request registered processes after it began
StoppedAfterStart ==
    /\ stopPc = "replied"
    /\ depLog.startedBeforeStop
    /\ ~depLog.registeredAfterStop

C19_NoPortsForDeletedProject ==
    project = NoProject => ~getAssignment(assignments, GenProjectId).found

\* C20: an assignPorts call that finds the store file unreadable or
\* unparseable throws, returns no port pair and leaves the stored
\* assignments as they were
C20_UnreadableStoreFailsAssign ==
    [][(lastCall'.op = "assign" /\ ~lastCall'.readable)
           => /\ lastCall'.threw
              /\ assignments' = assignments]_vars

\* isValidFilePath: the path starts with one of the valid prefixes
\* (a directory prefix needs a further segment, the prefixes docker-compose
\* and README match a first segment of that name)
isValidFilePath(p) ==
    /\ p.segs # <<>>
    /\ \/ /\ Len(p.segs) >= 2
          /\ p.segs[1] \in {"backend", "frontend", "database", "scripts", "docs"}
       \/ p.segs[1] \in {"docker-compose", "README"}

\* C21: every path of the accumulated file set of a run, and every path of
\* it that has been written to disk, starts with one of the fixed top-level
\* roots
C21_PathsUnderRoots ==
    /\ \A i \in 1..Len(run.allFiles) : isValidFilePath(run.allFiles[i].path)
    /\ \A i \in 1..Len(run.allFiles) :
          run.allFiles[i].path \in disk => isValidFilePath(run.allFiles[i].path)

\* the ProjectStatus enum
ProjectStatus == {"draft", "generating", "testing", "deployed", "failed"}

\* C22: the status of the project record, while the project is in the
\* store, is one of draft, generating, testing, deployed, failed
C22_StatusInEnum ==
    project # NoProject => project.status \in ProjectStatus

\* C23: an invocation of generatePhase makes at most three provider calls;
\* it calls the provider again only after a response that lacks a critical
\* file and after fewer than two retries; a provider error ends it at once;
\* and it ends when every provider call returns or throws
C23_AtMostThreeProviderCalls ==
    /\ [](Len(run.returned) <= 3 /\ run.retryCount <= 2)
    /\ [][(pc = "provider" /\ pc' = "provider")
            => /\ run'.retryCount = run.retryCount + 1
               /\ run.retryCount < 2
               /\ \E f \in SeqRange(CRITICAL_FILES(ContentPhases[run.phase])) :
                     f \notin SeqRange(run'.returned[Len(run'.returned)])]_vars
    /\ [][run'.caught # run.caught => pc' = "threw"]_vars
    /\ (pc = "provider") ~> (pc # "provider")

\* the invocation returned the files of its third provider call
C23_Witness == pc = "returned" /\ Len(run.returned) = 3

\* the phases of the session that are in progress
InProgress(sess) ==
    {i \in 1..Len(sess.phases) : sess.phases[i].status = "in_progress"}

CancelWasAccepted ==
    \E i \in 1..Len(emitted) : emitted[i].type = "cancelled"

\* C25: after an accepted cancel the project's status stays draft, whatever
\* the outstanding work of the cancelled run does
C25_CancelledStaysDraft ==
    CancelWasAccepted => project.status = "draft"

\* runBatchGeneration has been called and has not finished
RunInProgress == pc \notin {"idle", "grace", "done"}

\* C26: while a run is in progress its session is in the session map, also
\* when the run was accepted during the grace delay of the run before it
C26_CleanupSparesNewSession ==
    RunInProgress => session # NoSession

\* the exit event of a child that stop has signalled arrives while another
\* start request's handle is registered
StoppedChildExits(r, side) ==
    /\ children[r][side] = "killed"
    /\ children'[r][side] = "reaped"
    /\ registry.present
    /\ registry.owner # r

\* C27: a side of the registered handle is non-null exactly while the child
\* recorded in the handle for that side has not exited, and the exit of a
\* child of an earlier, stopped run leaves the handle of a later start as
\* it is
C27_SideClearedByOwnChildOnly ==
    /\ [](registry.present =>
             \A side \in Sides :
                 registry[side] <=>
                     children[registry.owner][side] \in {"running", "killed"})
    /\ [][\A r \in StartRequests, side \in Sides :
             StoppedChildExits(r, side) => registry' = registry]_vars

\* some child that stop has signalled is still running
SignalledChildRuns ==
    \E r \in StartRequests, side \in Sides :
        children[r][side] \in {"killed", "ignoring"}

\* C28: once stop has signalled the children of a project, eventually none
\* of them is running
C28_StoppedChildrenTerminate ==
    SignalledChildRuns ~> ~SignalledChildRuns

\* the children of a side that were spawned and neither signalled nor exited
RunningChildren(side) ==
    {r \in StartRequests : children[r][side] = "running"}

\* the child is the one the project's registry entry holds for the side
Reachable(r, side) ==
    registry.present /\ registry.owner = r /\ registry[side]

\* C29: at any time the project has at most one running child per side, and
\* every running child is held by the project's registry entry
C29_OneReachableChildPerSide ==
    \A side \in Sides :
        /\ Cardinality(RunningChildren(side)) <= 1
        /\ \A r \in RunningChildren(side) : Reachable(r, side)

\* runBatchGeneration is past its return statement
RunFinished == pc \in {"grace", "done"}

\* C30: an accepted run whose awaited calls all settle finishes, and the
\* step that finishes it leaves the project deployed or failed
C30_RunFinishesDeployedOrFailed ==
    /\ (pc \notin {"idle", "grace", "done"}) ~> RunFinished
    /\ [][(~RunFinished /\ RunFinished')
            => project'.status \in {"deployed", "failed"}]_vars
    /\ [](RunFinished => project.status \in {"deployed", "failed"})

\* a run that went through testing has finished
C30_Witness ==
    /\ RunFinished
    /\ run.caught = "null"
    /\ project.status = "deployed"
    /\ \E i \in 1..Len(phaseEvents) :
          phaseEvents[i].phaseId = "finalizing" /\ phaseEvents[i].status = "completed"

====
